---- MODULE Spec2Model ----
(***************************************************************************)
(* Model of espresso/hparam_optim.py: the objective function handed to the *)
(* hyperparameter search, together with the command templater it uses.     *)
(*                                                                         *)
(* Text is modelled character by character: a Python str (or bytes) is a   *)
(* sequence of one-character strings, so that str.replace, str.split,      *)
(* str(), "{}".format and float() are computed and not assumed.            *)
(* A float value is modelled by its number of hundredths (0.1 is 10,       *)
(* 12.5 is 1250); all floats of the model have at most two decimals.       *)
(***************************************************************************)
EXTENDS Integers, Sequences, FiniteSets, TLC

\* ------------------------------------------------------------------ bounds

\* number of objective_func calls made in the process
MaxCalls == 2

\* number of keys in one parameter assignment
MaxParams == 2

\* ------------------------------------------------------------ text helpers

\* the literal '{{RUN_ID}}' of parse_runid
Placeholder == <<"{", "{", "R", "U", "N", "_", "I", "D", "}", "}">>

\* the literal 'run_id' of objective_func and parse_params
RunIdKey == <<"r", "u", "n", "_", "i", "d">>

Space == <<" ">>

Dot == <<".">>

Digits == <<"0", "1", "2", "3", "4", "5", "6", "7", "8", "9">>

\* str.replace(old, new) for a non-empty old: leftmost, non-overlapping
RECURSIVE Replace(_, _, _)
Replace(text, old, new) ==
    IF Len(text) < Len(old) THEN text
    ELSE IF SubSeq(text, 1, Len(old)) = old
         THEN new \o Replace(SubSeq(text, Len(old) + 1, Len(text)), old, new)
         ELSE <<Head(text)>> \o Replace(Tail(text), old, new)

\* str.split(' '): the pieces between single separators, empty pieces kept
RECURSIVE Split(_, _)
Split(text, sep) ==
    IF \A i \in 1..Len(text) : text[i] # sep THEN <<text>>
    ELSE LET i == CHOOSE j \in 1..Len(text) :
                     text[j] = sep /\ \A k \in 1..(j - 1) : text[k] # sep
         IN  <<SubSeq(text, 1, i - 1)>> \o Split(SubSeq(text, i + 1, Len(text)), sep)

\* decimal digits of a natural number
RECURSIVE NatStr(_)
NatStr(n) ==
    IF n < 10 THEN <<Digits[n + 1]>>
    ELSE NatStr(n \div 10) \o <<Digits[(n % 10) + 1]>>

\* str(x) and "{}".format(x) of a float x given in hundredths: the shortest
\* representation, with at least one digit after the point
Str(h) ==
    LET a    == IF h < 0 THEN -h ELSE h
        fp   == a % 100
        frac == IF fp % 10 = 0 THEN <<Digits[(fp \div 10) + 1]>>
                ELSE <<Digits[(fp \div 10) + 1], Digits[(fp % 10) + 1]>>
    IN  (IF h < 0 THEN <<"-">> ELSE <<>>) \o NatStr(a \div 100) \o Dot \o frac

IsDigit(c) == \E d \in 1..10 : Digits[d] = c

DigitVal(c) == (CHOOSE d \in 1..10 : Digits[d] = c) - 1

RECURSIVE NatVal(_)
NatVal(ds) ==
    IF ds = <<>> THEN 0
    ELSE 10 * NatVal(SubSeq(ds, 1, Len(ds) - 1)) + DigitVal(ds[Len(ds)])

IsWhite(c) == c \in {" ", "\n", "\t"}

RECURSIVE Strip(_)
Strip(text) ==
    IF text = <<>> THEN text
    ELSE IF IsWhite(Head(text)) THEN Strip(Tail(text))
    ELSE IF IsWhite(text[Len(text)]) THEN Strip(SubSeq(text, 1, Len(text) - 1))
    ELSE text

\* float(text) on plain decimal literals with at most two decimals:
\* surrounding whitespace is ignored, then an optional sign, digits, an
\* optional point and digits, with at least one digit overall.  Anything
\* else raises ValueError (ok = FALSE).
Float(text) ==
    LET s     == Strip(text)
        neg   == s # <<>> /\ Head(s) = "-"
        body  == IF s # <<>> /\ Head(s) \in {"-", "+"} THEN Tail(s) ELSE s
        parts == Split(body, ".")
        ip    == parts[1]
        fpart == IF Len(parts) = 2 THEN parts[2] ELSE <<>>
        ok    == /\ Len(parts) \in {1, 2}
                 /\ Len(ip) + Len(fpart) > 0
                 /\ Len(fpart) <= 2
                 /\ \A i \in 1..Len(ip) : IsDigit(ip[i])
                 /\ \A i \in 1..Len(fpart) : IsDigit(fpart[i])
        fval  == IF Len(fpart) = 0 THEN 0
                 ELSE IF Len(fpart) = 1 THEN 10 * DigitVal(fpart[1])
                 ELSE NatVal(fpart)
        mag   == 100 * NatVal(ip) + fval
    IN  IF ok THEN [ok |-> TRUE, val |-> IF neg THEN -mag ELSE mag]
        ELSE [ok |-> FALSE, val |-> 0]

\* ------------------------------------------------------------------ inputs

LrKey == <<"l", "r">>

DpKey == <<"d", "p">>

Keys == {RunIdKey, LrKey, DpKey}

\* the values the search space gives each key (floats, in hundredths):
\* run_id 1.0, 2.0, 1.25, 12.5; lr 0.1; dp 0.5
ValuesOf(k) ==
    IF k = RunIdKey THEN {100, 200, 125, 1250}
    ELSE IF k = LrKey THEN {10}
    ELSE {50}

\* a parameter assignment is a dict: a sequence of <<key, value>> pairs in
\* iteration order, no key twice
Assignments ==
    UNION {
        { h \in [1..n -> UNION { {<<k, v>> : v \in ValuesOf(k)} : k \in Keys }] :
            \A i, j \in 1..n : i # j => h[i][1] # h[j][1] }
        : n \in 0..MaxParams }

HasKey(hparams, k) == \E i \in 1..Len(hparams) : hparams[i][1] = k

Lookup(hparams, k) == hparams[CHOOSE i \in 1..Len(hparams) : hparams[i][1] = k][2]

\* the command line given by the user: --train-command, --train-arguments,
\* --eval-command
CommandLines == {
    \* "t", "-o {{RUN_ID}}", "e {{RUN_ID}}"
    [train_command   |-> <<"t">>,
     train_arguments |-> <<"-", "o", " ">> \o Placeholder,
     eval_command    |-> <<"e", " ">> \o Placeholder],
    \* "t", "", "e": no placeholder, default --train-arguments
    [train_command   |-> <<"t">>,
     train_arguments |-> <<>>,
     eval_command    |-> <<"e">>],
    \* "{{RUN_ID}}/t", "--run_id {{RUN_ID}}", "e"
    [train_command   |-> Placeholder \o <<"/", "t">>,
     train_arguments |-> <<"-", "-">> \o RunIdKey \o Space \o Placeholder,
     eval_command    |-> <<"e">>] }

\* what the eval process can print: "0.5\n", "-1.25", "2", "abc", ""
EvalOutputs == {
    <<"0", ".", "5", "\n">>,
    <<"-", "1", ".", "2", "5">>,
    <<"2">>,
    <<"a", "b", "c">>,
    <<>> }

ExitCodes == {0, 1}

\* ---------------------------------------------------------------- program

\* exec with subprocess.call semantics: the exit status is not checked
exec_unchecked(command, code, out) ==
    [argv   |-> Split(command, " "),
     raised |-> FALSE,
     output |-> out]

\* subprocess.check_output(command.split(' ')) for a process that exits with
\* `code` having printed `out`
exec(command, code, out) ==
    [argv   |-> Split(command, " "),
     raised |-> code # 0,
     output |-> IF code = 0 THEN out ELSE <<>>]

\* the flag of one dict entry: " --{} {}".format(arg, params_dict[arg])
Flag(kv) == <<" ", "-", "-">> \o kv[1] \o Space \o Str(kv[2])

\* parse_params without the `continue` of lines 61-62
RECURSIVE parse_params_noskip(_)
parse_params_noskip(params_dict) ==
    IF params_dict = <<>> THEN <<>>
    ELSE parse_params_noskip(SubSeq(params_dict, 1, Len(params_dict) - 1))
             \o Flag(params_dict[Len(params_dict)])

RECURSIVE parse_params(_)
parse_params(params_dict) ==
    IF params_dict = <<>> THEN <<>>
    ELSE LET rest == parse_params(SubSeq(params_dict, 1, Len(params_dict) - 1))
             kv   == params_dict[Len(params_dict)]
         IN  IF kv[1] = RunIdKey THEN rest ELSE rest \o Flag(kv)

parse_runid(text, run_id) == Replace(text, Placeholder, run_id)

\* str(hparams['run_id']).replace('.', '')
RunIdent(hparams) == Replace(Str(Lookup(hparams, RunIdKey)), Dot, <<>>)

\* the run_id branch taken unconditionally, with str(hparams.get('run_id'))
Substitute_always(a, hparams) ==
    LET id == IF HasKey(hparams, RunIdKey) THEN RunIdent(hparams)
              ELSE <<"N", "o", "n", "e">>
    IN  [a EXCEPT !.train_arguments = parse_runid(@, id),
                  !.train_command   = parse_runid(@, id),
                  !.eval_command    = parse_runid(@, id)]

\* lines 70-75: the templates of args after the run_id branch
Substitute(a, hparams) ==
    IF HasKey(hparams, RunIdKey)
    THEN [a EXCEPT !.train_arguments = parse_runid(@, RunIdent(hparams)),
                   !.train_command   = parse_runid(@, RunIdent(hparams)),
                   !.eval_command    = parse_runid(@, RunIdent(hparams))]
    ELSE a

\* line 80: the string handed to exec for training
TrainLine(a, hparams) ==
    a.train_command \o Space \o a.train_arguments \o parse_params(hparams)

\* lines 84-89 with `result = abs(result)` in place of the negation
Finish_abs(maximize, out) ==
    LET f == Float(out)
    IN  [ok |-> f.ok,
         val |-> IF maximize /\ f.val < 0 THEN -f.val ELSE f.val]

\* lines 84-89: float(result), negated in maximize mode
Finish(maximize, out) ==
    LET f == Float(out)
    IN  [ok |-> f.ok, val |-> IF maximize THEN -f.val ELSE f.val]

\* one whole call of objective_func on templates a, for a train process
\* exiting with env.train_exit and an eval process exiting with
\* env.eval_exit having printed env.eval_out
objective_func(a, hparams, env) ==
    LET a1 == Substitute(a, hparams)
        t  == exec(TrainLine(a1, hparams), env.train_exit, <<>>)
        e  == exec(a1.eval_command, env.eval_exit, env.eval_out)
        f  == Finish(a1.maximize, e.output)
    IN  IF t.raised
        THEN [args |-> a1, execd |-> <<t.argv>>,
              raised |-> "CalledProcessError", result |-> 0]
        ELSE IF e.raised
        THEN [args |-> a1, execd |-> <<t.argv, e.argv>>,
              raised |-> "CalledProcessError", result |-> 0]
        ELSE IF ~f.ok
        THEN [args |-> a1, execd |-> <<t.argv, e.argv>>,
              raised |-> "ValueError", result |-> 0]
        ELSE [args |-> a1, execd |-> <<t.argv, e.argv>>,
              raised |-> "none", result |-> f.val]

\* ------------------------------------------------------------------ state

VARIABLES
    cli,     \* the command line as the user gave it (never changes)
    args,    \* the global args object: the three templates and maximize
    pc,      \* "idle": outside objective_func; "train" / "eval": inside,
             \* blocked on that process
    cur,     \* the call in progress, or the last one when idle
    prev,    \* <<run_id>> of the call before cur, <<>> if it had none
    ncalls   \* number of calls made

vars == <<cli, args, pc, cur, prev, ncalls>>

NoCall ==
    [hparams    |-> <<>>,
     before     |-> [train_command |-> <<>>, train_arguments |-> <<>>,
                     eval_command |-> <<>>, maximize |-> FALSE],
     train      |-> "none",      \* "none", "running", "exited"
     train_argv |-> <<>>,
     train_exit |-> 0,
     eval       |-> "none",
     eval_argv  |-> <<>>,
     eval_exit  |-> 0,
     eval_out   |-> <<>>,
     raised     |-> "none",      \* "none", "CalledProcessError", "ValueError"
     returned   |-> FALSE,
     result     |-> 0]

Init ==
    /\ cli \in CommandLines
    /\ \E m \in BOOLEAN :
           args = [train_command   |-> cli.train_command,
                   train_arguments |-> cli.train_arguments,
                   eval_command    |-> cli.eval_command,
                   maximize        |-> m]
    /\ pc = "idle"
    /\ cur = NoCall
    /\ prev = <<>>
    /\ ncalls = 0

\* objective_func is entered with hparams: lines 70-77 run and the train
\* process of line 80 is started
Enter(hparams) ==
    /\ pc = "idle"
    /\ ncalls < MaxCalls
    /\ args' = Substitute(args, hparams)
    /\ cur' = [NoCall EXCEPT !.hparams    = hparams,
                             !.before     = args,
                             !.train      = "running",
                             !.train_argv = exec(TrainLine(args', hparams), 0, <<>>).argv]
    /\ prev' = IF HasKey(cur.hparams, RunIdKey)
               THEN <<Lookup(cur.hparams, RunIdKey)>> ELSE <<>>
    /\ ncalls' = ncalls + 1
    /\ pc' = "train"
    /\ UNCHANGED cli

\* the train process exits with `code`: line 80 raises or returns, and on
\* return the eval process of line 83 is started
TrainExit(code) ==
    /\ pc = "train"
    /\ LET t == exec(TrainLine(args, cur.hparams), code, <<>>)
       IN  IF t.raised
           THEN /\ cur' = [cur EXCEPT !.train = "exited", !.train_exit = code,
                                      !.raised = "CalledProcessError"]
                /\ pc' = "idle"
           ELSE /\ cur' = [cur EXCEPT !.train = "exited", !.train_exit = code,
                                      !.eval = "running",
                                      !.eval_argv = exec(args.eval_command, 0, <<>>).argv]
                /\ pc' = "eval"
    /\ UNCHANGED <<cli, args, prev, ncalls>>

\* the eval process exits with `code` having printed `out`: line 83 raises
\* or returns, then lines 84-89
EvalExit(code, out) ==
    /\ pc = "eval"
    /\ LET e == exec(args.eval_command, code, out)
           f == Finish(args.maximize, e.output)
           c == [cur EXCEPT !.eval = "exited", !.eval_exit = code,
                            !.eval_out = e.output]
       IN  cur' = IF e.raised THEN [c EXCEPT !.raised = "CalledProcessError"]
                  ELSE IF ~f.ok THEN [c EXCEPT !.raised = "ValueError"]
                  ELSE [c EXCEPT !.returned = TRUE, !.result = f.val]
    /\ pc' = "idle"
    /\ UNCHANGED <<cli, args, prev, ncalls>>

Next ==
    \/ \E hparams \in Assignments : Enter(hparams)
    \/ \E code \in ExitCodes : TrainExit(code)
    \/ \E code \in ExitCodes, out \in EvalOutputs : EvalExit(code, out)

Spec == Init /\ [][Next]_vars

\* ------------------------------------------------------------------ claims

Called == cur.train # "none"

CurHasRunId == Called /\ HasKey(cur.hparams, RunIdKey)

Count(seq, x) == Cardinality({i \in 1..Len(seq) : seq[i] = x})

\* the flags of an assignment, built front to back from the entries that
\* are not run_id
RECURSIVE FlagsOf(_)
FlagsOf(entries) ==
    IF entries = <<>> THEN <<>>
    ELSE <<" ", "-", "-">> \o Head(entries)[1] \o <<" ">> \o Str(Head(entries)[2])
             \o FlagsOf(Tail(entries))

NotRunId(kv) == kv[1] # RunIdKey

\* C1: every call whose assignment carries run_id executes the train and
\* eval commands obtained from the user's templates by replacing every
\* {{RUN_ID}} with that call's own run identifier.
C1_OwnRunIdRendered ==
    CurHasRunId =>
        LET id == RunIdent(cur.hparams)
        IN  /\ cur.train_argv =
                   Split(parse_runid(cli.train_command, id) \o Space
                             \o parse_runid(cli.train_arguments, id)
                             \o parse_params(cur.hparams), " ")
            /\ cur.eval # "none" =>
                   cur.eval_argv = Split(parse_runid(cli.eval_command, id), " ")

\* C2: eval is started only after train has exited, and a train process
\* that exits non-zero fails the call: eval is never started and no scalar
\* is returned.
C2_TrainBeforeEval ==
    /\ cur.train = "running" => cur.eval = "none"
    /\ cur.eval # "none" => cur.train = "exited" /\ cur.train_exit = 0
    /\ (cur.train = "exited" /\ cur.train_exit # 0) =>
           /\ cur.eval = "none"
           /\ cur.raised = "CalledProcessError"
           /\ ~cur.returned
           /\ pc = "idle"

C2_Witness ==
    /\ cur.train = "exited" /\ cur.train_exit # 0
    /\ ncalls = 2

C6_MaximizeIsSignFlip ==
    (Called /\ pc = "idle") =>
        LET env   == [train_exit |-> cur.train_exit, eval_exit |-> cur.eval_exit,
                      eval_out |-> cur.eval_out]
            here  == objective_func(cur.before, cur.hparams, env)
            there == objective_func([cur.before EXCEPT !.maximize = ~@],
                                    cur.hparams, env)
            execd == IF cur.eval = "none" THEN <<cur.train_argv>>
                     ELSE <<cur.train_argv, cur.eval_argv>>
        IN  /\ here.args = args /\ here.execd = execd
            /\ here.raised = cur.raised /\ here.result = cur.result
            /\ there.execd = execd
            /\ there.raised = cur.raised
            /\ there.args = [args EXCEPT !.maximize = ~@]
            /\ cur.returned <=> cur.raised = "none"
            /\ cur.returned => there.result = -cur.result
            /\ cur.returned =>
                   cur.result = (IF args.maximize THEN -1 ELSE 1) * Float(cur.eval_out).val

C6_Witness ==
    /\ pc = "idle" /\ cur.returned /\ args.maximize /\ cur.result = 125

\* C7: a call whose assignment has no run_id leaves the three templates as
\* they were and executes them verbatim, a {{RUN_ID}} in them included.
C7_NoRunIdVerbatim ==
    (Called /\ ~HasKey(cur.hparams, RunIdKey)) =>
        /\ args = cur.before
        /\ cur.train_argv =
               Split(cur.before.train_command \o Space
                         \o cur.before.train_arguments
                         \o parse_params(cur.hparams), " ")
        /\ cur.eval # "none" => cur.eval_argv = Split(cur.before.eval_command, " ")

C7_Witness ==
    /\ cur.eval = "exited"
    /\ ~HasKey(cur.hparams, RunIdKey)
    /\ cur.hparams # <<>>
    /\ cur.eval_argv = <<<<"e">>, Placeholder>>

\* C10: two trials whose run_id values differ obtain different run
\* identifiers.
C10_RunIdentInjective ==
    (CurHasRunId /\ prev # <<>> /\ Lookup(cur.hparams, RunIdKey) # prev[1])
    => RunIdent(cur.hparams) # RunIdent(<<<<RunIdKey, prev[1]>>>>)

====
